---- MODULE Spec2Model ----
(***************************************************************************)
(* Model of the Shamon web server (src/serve.py): three read-only HTTP     *)
(* endpoints (/json, /table, /stats) over the SQLite table `songs`.        *)
(*                                                                         *)
(* Text is modelled as a sequence of atoms: an atom is a piece of plain    *)
(* text ("a", "b", ...) or a piece of markup ("<tr>", "<script>", ...).    *)
(* String concatenation is sequence concatenation, so "a" || "bc" and      *)
(* "ab" || "c" are the same text, as they are in SQL.                      *)
(*                                                                         *)
(* Raw timestamps are integers counting half hours of UTC; the SQL         *)
(* function datetime(t, 'localtime') is modelled by Local, the conversion  *)
(* of a host whose time zone leaves daylight saving time at DstEnd.        *)
(***************************************************************************)
EXTENDS Integers, Sequences, FiniteSets, TLC

(* ---------------------------- bounds ---------------------------------- *)
MaxRows == 2          \* rows in the songs table
NumRequests == 2      \* requests that may be in flight together
MaxLimit == 1         \* greatest value of the ?limit= query parameter

Requests == 1..NumRequests
Limits == (0 - 1)..MaxLimit

(* ------------------------ program constants --------------------------- *)
DB_PATH == "~/.music_monitor.db"

(* SQL NULL, which sqlite3 hands to Python as None *)
NULL == <<"NULL">>

(* ------------- datetime(timestamp, 'localtime') of SQLite ------------- *)
SummerOffset == 4     \* UTC+2, in half hours
WinterOffset == 2     \* UTC+1, in half hours
DstEnd == 4           \* first raw instant of winter time

Local(t) == IF t < DstEnd THEN t + SummerOffset ELSE t + WinterOffset

(* -------------------------- the database ------------------------------ *)
(* Rows the monitoring script may have stored in `songs`. *)
SongRows ==
    { [timestamp |-> 3, title |-> <<"a">>, artist |-> <<"b", "c">>, audio_level |-> -12],
      [timestamp |-> 4, title |-> <<"a", "b">>, artist |-> <<"c">>, audio_level |-> -8],
      [timestamp |-> 5, title |-> <<"<script>">>, artist |-> NULL, audio_level |-> -8],
      [timestamp |-> 4, title |-> <<"a">>, artist |-> <<"<tr>", "<td>">>, audio_level |-> -12] }

RECURSIVE SeqsUpTo(_, _)
SeqsUpTo(S, n) ==
    IF n = 0 THEN { <<>> }
    ELSE LET shorter == SeqsUpTo(S, n - 1)
         IN  shorter \cup { Append(s, x) : s \in shorter, x \in S }

Tables == SeqsUpTo(SongRows, MaxRows)

VARIABLES
    dbFile,   \* "absent": no file at DB_PATH; "broken": a file without a
              \* readable songs table; "ok": a database holding `songs`
    songs,    \* the rows of the songs table, in rowid order
    req       \* per request: position, parameters, connection, result

vars == <<dbFile, songs, req>>

(* ------------------------- small helpers ------------------------------ *)
Min(a, b) == IF a < b THEN a ELSE b

RECURSIVE Count(_, _)
Count(tok, s) ==
    IF s = <<>> THEN 0
    ELSE (IF Head(s) = tok THEN 1 ELSE 0) + Count(tok, Tail(s))

RECURSIVE Flatten(_)
Flatten(ss) == IF ss = <<>> THEN <<>> ELSE Head(ss) \o Flatten(Tail(ss))

(* -------------------------- exceptions -------------------------------- *)
HTTPException(code, detail) ==
    [type |-> "HTTPException", status_code |-> code, detail |-> detail]

OperationalError ==
    [type |-> "OperationalError", status_code |-> 0,
     detail |-> <<"no such table: songs">>]

(* str(e): starlette renders an HTTPException as "<status>: <detail>" *)
Str(e) ==
    IF e.type = "HTTPException"
    THEN <<ToString(e.status_code), ": ">> \o e.detail
    ELSE e.detail

(* get_db_connection: the exception it raises when the file is absent *)
DbNotFound ==
    HTTPException(503, <<"Database not found at ", DB_PATH,
                         ". Run shamon.sh first to create the database.">>)

(* get_db_connection: TRUE when it returns a connection *)
get_db_connection == dbFile # "absent"

(* cursor.execute on this database: TRUE when the statement runs *)
ExecuteOk == dbFile = "ok"

(* ----------------------------- responses ------------------------------ *)
(* A response: `json` holds the records of a JSON array, `stats` the      *)
(* statistics object (a sequence of at most one), `content` the text of   *)
(* an HTML document or of an error detail.                                *)
JSONResponseEmptyIsError(data) ==
    IF data = <<>>
    THEN [status_code |-> 404, media_type |-> "application/json",
          json |-> <<>>, stats |-> <<>>, content |-> <<"No songs found">>]
    ELSE [status_code |-> 200, media_type |-> "application/json",
          json |-> data, stats |-> <<>>, content |-> <<>>]

JSONResponse(data) ==
    [status_code |-> 200, media_type |-> "application/json",
     json |-> data, stats |-> <<>>, content |-> <<>>]

StatsResponse(snapshot) ==
    [status_code |-> 200, media_type |-> "application/json",
     json |-> <<>>, stats |-> <<snapshot>>, content |-> <<>>]

(* Response(content=..., media_type=...): status_code defaults to 200 *)
Response(content, media_type) ==
    [status_code |-> 200, media_type |-> media_type,
     json |-> <<>>, stats |-> <<>>, content |-> content]

(* what FastAPI sends for a raised HTTPException *)
ErrorResponse(e) ==
    [status_code |-> e.status_code, media_type |-> "application/json",
     json |-> <<>>, stats |-> <<>>, content |-> e.detail]

NoResponse ==
    [status_code |-> 0, media_type |-> "", json |-> <<>>, stats |-> <<>>,
     content |-> <<>>]

(* ---------------------------- query_songs ----------------------------- *)
RowIds == 1..Len(songs)

(* ORDER BY timestamp: the name resolves to the result column            *)
(* `datetime(timestamp, 'localtime') as timestamp`, not to the stored one *)
OrderKey(row) == Local(row.timestamp)

(* the orders in which SQLite may deliver the rows: descending by the    *)
(* ORDER BY term, rows with equal terms in any order                      *)
SortedOrders ==
    { p \in [RowIds -> RowIds] :
        /\ \A i, j \in RowIds : i # j => p[i] # p[j]
        /\ \A i, j \in RowIds :
              i < j => OrderKey(songs[p[i]]) >= OrderKey(songs[p[j]]) }

(* LIMIT ?: a negative bound means no bound *)
ApplyLimit(order, limit) ==
    IF limit < 0 THEN order ELSE SubSeq(order, 1, Min(limit, Len(order)))

(* the row ids cursor.fetchall() may return, in order *)
FetchAll(limit) == { ApplyLimit(p, limit) : p \in SortedOrders }

(* dict(row): the four result columns, timestamp localized *)
RowToDict(row) ==
    [timestamp |-> Local(row.timestamp), title |-> row.title,
     artist |-> row.artist, audio_level |-> row.audio_level]

Records(rows) == [i \in 1..Len(rows) |-> RowToDict(songs[rows[i]])]

(* ---------------------------- /table page ----------------------------- *)
(* an f-string renders None as "None" and a number by str() *)
FormatText(v) == IF v = NULL THEN <<"None">> ELSE v
FormatNum(n) == <<ToString(n)>>

PageHead ==
    << "<!DOCTYPE html>", "<html>", "<head>", "<title>", "Shamon - Music Data",
       "</title>", "<style>", "css", "</style>", "</head>", "<body>",
       "<div class=\"header\">", "<h1>", "Shamon Music Monitor", "</h1>",
       "<div class=\"stats\">", "Database: ", DB_PATH, "</div>", "</div>" >>

TableOpen ==
    << "<table>", "<tr>",
       "<th>", "Timestamp", "</th>", "<th>", "Title", "</th>",
       "<th>", "Artist", "</th>", "<th>", "Audio Level", "</th>",
       "</tr>" >>

Cell(text) == <<"<td>">> \o text \o <<"</td>">>

TableRow(item) ==
    <<"<tr>">> \o Cell(FormatNum(item.timestamp)) \o Cell(FormatText(item.title))
               \o Cell(FormatText(item.artist)) \o Cell(FormatNum(item.audio_level))
               \o <<"</tr>">>

NoData ==
    << "<div class=\"no-data\">", "<p>",
       "No music data found. Run shamon.sh to start monitoring.",
       "</p>", "</div>" >>

PageBodyAlwaysTable(data) ==
    TableOpen \o Flatten([i \in 1..Len(data) |-> TableRow(data[i])])
              \o <<"</table>">>

PageBody(data) ==
    IF data # <<>>
    THEN TableOpen \o Flatten([i \in 1..Len(data) |-> TableRow(data[i])])
                   \o <<"</table>">>
    ELSE NoData

PageFoot(data) ==
    << "<div class=\"footer\">", "Shamon v1.2.0 | Showing last ",
       ToString(Len(data)), " detections", "</div>", "</body>", "</html>" >>

Page(data) == PageHead \o PageBody(data) \o PageFoot(data)

ErrorPage(e) ==
    << "<html>", "<body>", "<h1>", "Error", "</h1>", "<p>" >> \o Str(e)
        \o << "</p>", "</body>", "</html>" >>

(* ------------------------------ /stats -------------------------------- *)
(* title || artist: NULL when either operand is NULL *)
Concat(a, b) == IF a = NULL \/ b = NULL THEN NULL ELSE a \o b

(* COUNT(DISTINCT title || artist): NULLs are not counted *)
UniqueSongs ==
    Cardinality({ Concat(songs[i].title, songs[i].artist) : i \in RowIds } \ {NULL})

(* datetime(MAX(timestamp), 'localtime'): no value on an empty table *)
LastDetection ==
    IF songs = <<>> THEN <<>>
    ELSE <<Local(CHOOSE t \in { songs[i].timestamp : i \in RowIds } :
                    \A i \in RowIds : songs[i].timestamp <= t)>>

(* GROUP BY title, artist ORDER BY count DESC LIMIT 1: any greatest group *)
Groups == { <<songs[i].title, songs[i].artist>> : i \in RowIds }
GroupCount(g) ==
    Cardinality({ i \in RowIds : <<songs[i].title, songs[i].artist>> = g })
TopSongs ==
    IF songs = <<>>
    THEN { [title |-> NULL, artist |-> NULL, count |-> 0] }
    ELSE { [title |-> g[1], artist |-> g[2], count |-> GroupCount(g)] :
             g \in { h \in Groups : \A k \in Groups : GroupCount(k) <= GroupCount(h) } }

Snapshot(top) ==
    [total_detections |-> Len(songs), unique_songs |-> UniqueSongs,
     last_detection |-> LastDetection, most_detected |-> top]

(* ------------------------------ state --------------------------------- *)
Idle ==
    [pc |-> "idle", endpoint |-> "", limit |-> 0, conn |-> "none",
     rows |-> <<>>, resp |-> NoResponse]

Init ==
    /\ dbFile \in {"absent", "broken", "ok"}
    /\ songs \in (IF dbFile = "ok" THEN Tables ELSE { <<>> })
    /\ req = [r \in Requests |-> Idle]

(* A handler starts and calls get_db_connection.  `notFound` is what the *)
(* handler's own except clause makes of the exception raised for an      *)
(* absent file.                                                          *)
Call(r, endpoint, limit, notFound) ==
    /\ req[r].pc = "idle"
    /\ req' = [req EXCEPT ![r] =
         IF get_db_connection
         THEN [@ EXCEPT !.pc = "connected", !.endpoint = endpoint,
                        !.limit = limit, !.conn = "open"]
         ELSE [@ EXCEPT !.pc = "done", !.endpoint = endpoint,
                        !.limit = limit, !.resp = notFound]]
    /\ UNCHANGED <<dbFile, songs>>

(* the queries ran: conn.close(), then the handler answers with `resp` *)
Return(r, rows, resp) ==
    req' = [req EXCEPT ![r] =
              [@ EXCEPT !.pc = "done", !.conn = "closed", !.rows = rows,
                        !.resp = resp]]

(* cursor.execute raised: control leaves before conn.close(), and the    *)
(* handler's except clause answers with `resp`                            *)
Raise(r, resp) ==
    req' = [req EXCEPT ![r] = [@ EXCEPT !.pc = "done", !.resp = resp]]

(* ------------------------------ /json --------------------------------- *)
(* except Exception as e: raise HTTPException(status_code=500, ...) *)
Raise500(e) == ErrorResponse(HTTPException(500, Str(e)))

get_music_data_call(r, limit) == Call(r, "/json", limit, Raise500(DbNotFound))

get_music_data(r) ==
    /\ req[r].pc = "connected"
    /\ req[r].endpoint = "/json"
    /\ IF ExecuteOk
       THEN \E rows \in FetchAll(req[r].limit) :
              Return(r, rows, JSONResponse(Records(rows)))
       ELSE Raise(r, Raise500(OperationalError))
    /\ UNCHANGED <<dbFile, songs>>

(* ------------------------------ /table -------------------------------- *)
TableResponse(data) == Response(Page(data), "text/html")
TableError(e) == Response(ErrorPage(e), "text/html")

get_music_table_call(r, limit) == Call(r, "/table", limit, TableError(DbNotFound))

get_music_table(r) ==
    /\ req[r].pc = "connected"
    /\ req[r].endpoint = "/table"
    /\ IF ExecuteOk
       THEN \E rows \in FetchAll(req[r].limit) :
              Return(r, rows, TableResponse(Records(rows)))
       ELSE Raise(r, TableError(OperationalError))
    /\ UNCHANGED <<dbFile, songs>>

(* ------------------------------ /stats -------------------------------- *)
get_stats_call(r) == Call(r, "/stats", 0, Raise500(DbNotFound))

get_stats(r) ==
    /\ req[r].pc = "connected"
    /\ req[r].endpoint = "/stats"
    /\ IF ExecuteOk
       THEN \E top \in TopSongs : Return(r, <<>>, StatsResponse(Snapshot(top)))
       ELSE Raise(r, Raise500(OperationalError))
    /\ UNCHANGED <<dbFile, songs>>

Next ==
    \/ \E r \in Requests, limit \in Limits : get_music_data_call(r, limit)
    \/ \E r \in Requests : get_music_data(r)
    \/ \E r \in Requests, limit \in Limits : get_music_table_call(r, limit)
    \/ \E r \in Requests : get_music_table(r)
    \/ \E r \in Requests : get_stats_call(r)
    \/ \E r \in Requests : get_stats(r)

Spec == Init /\ [][Next]_vars

(* ======================= properties of the claims ===================== *)
Range(s) == { s[i] : i \in DOMAIN s }
Done(r) == req[r].pc = "done"
(* query_songs (or the queries of get_stats) returned to the handler *)
Fetched(r) == Done(r) /\ req[r].conn = "closed"
Raw(i) == songs[i].timestamp

(* C1: with no file at DB_PATH, GET /stats and GET /json answer 503 with a
   message that names DB_PATH. *)
C1_MissingDbIs503 ==
    \A r \in Requests :
        (Done(r) /\ dbFile = "absent" /\ req[r].endpoint \in {"/stats", "/json"})
            => /\ req[r].resp.status_code = 503
               /\ DB_PATH \in Range(req[r].resp.content)

(* C2: the connection a request opened is closed when the request has
   returned, whether its queries succeeded or raised. *)
C2_ConnectionClosedOnReturn ==
    \A r \in Requests : Done(r) => req[r].conn # "open"

(* C3: GET /json or GET /table with limit <= 0 never gives a successful
   response that carries the (zero or all) rows of a fetch. *)
C3_NonPositiveLimitRejected ==
    \A r \in Requests :
        (Done(r) /\ req[r].endpoint \in {"/json", "/table"} /\ req[r].limit <= 0)
            => ~(Fetched(r) /\ req[r].resp.status_code = 200)

(* C4: query_songs(N) with N >= 1 returns min(N, number of rows) rows, the
   ones with the greatest raw timestamps, in descending order of the raw
   timestamp. *)
C4_NewestByRawTimestamp ==
    \A r \in Requests :
        (Fetched(r) /\ req[r].endpoint \in {"/json", "/table"} /\ req[r].limit >= 1)
            => LET rows == req[r].rows
               IN  /\ Len(rows) = Min(req[r].limit, Len(songs))
                   /\ \A i, j \in DOMAIN rows : i < j => Raw(rows[i]) >= Raw(rows[j])
                   /\ \A i \in DOMAIN rows : \A k \in RowIds \ Range(rows) :
                         Raw(rows[i]) >= Raw(k)

(* C5: the HTML of GET /table never holds a stored <script> as raw markup. *)
C5_ValuesEscaped ==
    \A r \in Requests :
        (Fetched(r) /\ req[r].endpoint = "/table")
            => Count("<script>", req[r].resp.content) = 0

(* C6: when the fetch of GET /table fails, the status is 503 (file absent)
   or 500 (any other failure), never 200. *)
C6_TableFetchFailureIsError ==
    \A r \in Requests :
        (Done(r) /\ req[r].endpoint = "/table" /\ ~Fetched(r))
            => req[r].resp.status_code = (IF dbFile = "absent" THEN 503 ELSE 500)

(* C7: for a non-empty fetch the page of GET /table holds four header cells,
   one row element per record beside the header row, and four cells per
   record. *)
C7_TableShape ==
    \A r \in Requests :
        (Fetched(r) /\ req[r].endpoint = "/table" /\ req[r].rows # <<>>)
            => LET html == req[r].resp.content
               IN  /\ Count("<th>", html) = 4
                   /\ Count("<tr>", html) = 1 + Len(req[r].rows)
                   /\ Count("<td>", html) = 4 * Len(req[r].rows)

(* C8: unique_songs of GET /stats is the number of distinct (title, artist)
   pairs of the table and total_detections its number of rows. *)
C8_UniqueSongsCountsPairs ==
    \A r \in Requests :
        (Fetched(r) /\ req[r].endpoint = "/stats")
            => /\ req[r].resp.stats[1].unique_songs = Cardinality(Groups)
               /\ req[r].resp.stats[1].total_detections = Len(songs)

(* C9: when the fetch of GET /table returns no record, the response is a
   200 whose page holds the no-data placeholder and no table, header, row
   or cell element. *)
C9_EmptyFetchShowsPlaceholder ==
    \A r \in Requests :
        (Fetched(r) /\ req[r].endpoint = "/table" /\ req[r].rows = <<>>)
            => LET html == req[r].resp.content
               IN  /\ req[r].resp.status_code = 200
                   /\ "No music data found. Run shamon.sh to start monitoring."
                         \in Range(html)
                   /\ \A tag \in {"<table>", "<tr>", "<th>", "<td>"} :
                         Count(tag, html) = 0

(* a GET /table request has returned from an existing, empty songs table *)
C9_Witness ==
    \E r \in Requests :
        /\ Fetched(r) /\ req[r].endpoint = "/table"
        /\ dbFile = "ok" /\ songs = <<>> /\ req[r].limit >= 1

(* C10: GET /json on an existing database with an empty songs table answers
   200 with an empty JSON array. *)
C10_EmptyTableIsEmptyArray ==
    \A r \in Requests :
        (Done(r) /\ req[r].endpoint = "/json" /\ dbFile = "ok" /\ songs = <<>>)
            => /\ req[r].resp.status_code = 200
               /\ req[r].resp.media_type = "application/json"
               /\ req[r].resp.json = <<>>
               /\ req[r].resp.content = <<>>

(* a GET /json request has returned from an existing, empty songs table *)
C10_Witness ==
    \E r \in Requests :
        /\ Done(r) /\ req[r].endpoint = "/json"
        /\ dbFile = "ok" /\ songs = <<>> /\ req[r].limit >= 1

====
